---- MODULE Spec2Model ----
(***************************************************************************)
(* Model of netlify/functions/ebaySales.ts: the `handler` serverless       *)
(* function, its process-wide single-slot cache, and the helpers it calls  *)
(* (extractSellItemsFromHTML, calculateSalesMetrics, quantile, parsePrice, *)
(* getShippingCost, fetchSerp).                                            *)
(*                                                                         *)
(* JavaScript runs one handler continuation at a time; an invocation can   *)
(* only be interleaved with another one at an `await`.  Each action below  *)
(* is therefore one maximal synchronous stretch of `handler`:              *)
(*   Start        lines 35-83   (up to `await client.get`)                 *)
(*   PrimaryDone  lines 83-118 / 135-146 (up to `await fetchSerp`, or to   *)
(*                the return on the primary branch)                        *)
(*   SerpDone     lines 92-134 / 135-146                                   *)
(* Texts that the code inspects character by character (the query, price   *)
(* and shipping texts) are sequences of one-character strings.  A value    *)
(* that may be `undefined` is a sequence of length at most one.            *)
(***************************************************************************)
EXTENDS Integers, Sequences, FiniteSets, TLC

\* ------------------------------------------------------------------ bounds
\* cards in a primary page
MaxCards == 3
\* organic_results in a fallback answer
MaxResults == 2
\* the clock runs for at most this many cache durations
MaxSpans == 1

\* two invocations of the handler overlap in one warm process
Inv == {1, 2}

\* ------------------------------------------------------------ JS values
Undefined == <<>>
Num(n) == <<n>>
IsDefined(v) == v # Undefined

\* String.prototype.trim on a character sequence
RECURSIVE TrimLeft(_)
TrimLeft(s) ==
  IF s # <<>> /\ Head(s) = " " THEN TrimLeft(Tail(s)) ELSE s

RECURSIVE TrimRight(_)
TrimRight(s) ==
  IF s # <<>> /\ s[Len(s)] = " " THEN TrimRight(SubSeq(s, 1, Len(s) - 1)) ELSE s

trim(s) == TrimRight(TrimLeft(s))

\* q.replace(/ /g, '+')
formatItemName(q) == [k \in 1..Len(q) |-> IF q[k] = " " THEN "+" ELSE q[k]]

\* --------------------------------------------------------------- the cache
CACHE_DURATION == 60 * 60 * 1000

Null == [tag |-> "null"]

EmptyCache == [data |-> Null, timestamp |-> 0, query |-> <<>>]

\* lines 36-38: cache.timestamp ? Date.now() - cache.timestamp : null
durationFromLastFetch(c, t) ==
  IF c.timestamp # 0 THEN Num(t - c.timestamp) ELSE Undefined

\* CacheHit with the duration taken for seconds
CacheHitSeconds(c, q, t) ==
  /\ c.data # Null
  /\ IsDefined(durationFromLastFetch(c, t))
  /\ durationFromLastFetch(c, t)[1] < 60 * 60
  /\ c.query = q

\* CacheHit comparing the queries after trimming them
CacheHitTrimmed(c, q, t) ==
  /\ c.data # Null
  /\ IsDefined(durationFromLastFetch(c, t))
  /\ durationFromLastFetch(c, t)[1] < CACHE_DURATION
  /\ trim(c.query) = trim(q)

\* CacheHit without the comparison of the queries
CacheHitAnyQuery(c, q, t) ==
  /\ c.data # Null
  /\ IsDefined(durationFromLastFetch(c, t))
  /\ durationFromLastFetch(c, t)[1] < CACHE_DURATION

\* lines 49-54: the cache-hit condition
CacheHit(c, q, t) ==
  /\ c.data # Null
  /\ IsDefined(durationFromLastFetch(c, t))
  /\ durationFromLastFetch(c, t)[1] < CACHE_DURATION
  /\ c.query = q

\* MissingQuery without the trim
MissingQueryNoTrim(ev) ==
  \/ ~ev.hasQ
  \/ ev.q = <<>>

\* line 42: !q || q.trim() === ''
MissingQuery(ev) ==
  \/ ~ev.hasQ
  \/ ev.q = <<>>
  \/ trim(ev.q) = <<>>

\* ------------------------------------------------------------ text helpers
Digits == <<"0", "1", "2", "3", "4", "5", "6", "7", "8", "9">>

IsDigit(c) == \E d \in 1..10 : Digits[d] = c

DigitVal(c) == (CHOOSE d \in 1..10 : Digits[d] = c) - 1

RECURSIVE DecimalValue(_)
DecimalValue(s) ==
  IF s = <<>> THEN 0
  ELSE 10 * DecimalValue(SubSeq(s, 1, Len(s) - 1)) + DigitVal(s[Len(s)])

\* Number.prototype.toString for the non-negative integers of the model
RECURSIVE toString(_)
toString(n) ==
  IF n < 10 THEN <<Digits[n + 1]>>
  ELSE toString(n \div 10) \o <<Digits[(n % 10) + 1]>>

Upper == <<"B", "D", "E", "F", "I", "R", "S">>
Lower == <<"b", "d", "e", "f", "i", "r", "s">>

\* String.prototype.toLowerCase over the letters the code looks for
toLowerCase(s) ==
  [k \in 1..Len(s) |->
     IF \E u \in 1..Len(Upper) : Upper[u] = s[k]
     THEN Lower[CHOOSE u \in 1..Len(Upper) : Upper[u] = s[k]]
     ELSE s[k]]

\* String.prototype.includes
includes(s, sub) ==
  \E k \in 1..(Len(s) - Len(sub) + 1) : SubSeq(s, k, k + Len(sub) - 1) = sub

\* String.prototype.replace with a string pattern: the first occurrence only
replace(s, sub, rep) ==
  IF includes(s, sub)
  THEN LET k == CHOOSE j \in 1..(Len(s) - Len(sub) + 1) :
                  /\ SubSeq(s, j, j + Len(sub) - 1) = sub
                  /\ \A h \in 1..(j - 1) : SubSeq(s, h, h + Len(sub) - 1) # sub
       IN  SubSeq(s, 1, k - 1) \o rep \o SubSeq(s, k + Len(sub), Len(s))
  ELSE s

FREE == <<"f", "r", "e", "e">>
BIDS == <<"b", "i", "d", "s">>
DELIVERY == <<"d", "e", "l", "i", "v", "e", "r", "y">>
UNKNOWN == <<"U", "n", "k", "n", "o", "w", "n">>

\* ------------------------------------------------------------ Price Parser
\* the parsecurrency package on the texts of the model: an optional "$"
\* symbol followed by digits; anything else does not match and gives null
parseCurrency(s) ==
  LET t      == trim(s)
      hasSym == t # <<>> /\ Head(t) = "$"
      body   == IF hasSym THEN Tail(t) ELSE t
  IN  IF body # <<>> /\ \A k \in 1..Len(body) : IsDigit(body[k])
      THEN [isNull |-> FALSE, value |-> DecimalValue(body),
            currency |-> IF hasSym THEN "USD" ELSE "",
            symbol |-> IF hasSym THEN "$" ELSE ""]
      ELSE [isNull |-> TRUE, value |-> 0, currency |-> "", symbol |-> ""]

\* lines 221-231
parsePrice(priceStr) ==
  IF trim(priceStr) = <<>>
  THEN [isNull |-> TRUE, value |-> 0, currency |-> "", symbol |-> ""]
  ELSE parseCurrency(priceStr)

\* -------------------------------------------------------- Stats Calculator
RECURSIVE Insert(_, _)
Insert(x, s) ==
  IF s = <<>> THEN <<x>>
  ELSE IF x <= Head(s) THEN <<x>> \o s
       ELSE <<Head(s)>> \o Insert(x, Tail(s))

RECURSIVE SortNumbers(_)
SortNumbers(s) ==
  IF s = <<>> THEN <<>> ELSE Insert(Head(s), SortNumbers(Tail(s)))

\* Array.prototype.sort((a, b) => a - b): the numbers ascending, and every
\* undefined element after them (sort never hands undefined to the comparator)
sort(arr) ==
  LET defined == SelectSeq(arr, IsDefined)
      numbers == [k \in 1..Len(defined) |-> defined[k][1]]
      sorted  == SortNumbers(numbers)
  IN  [k \in 1..Len(arr) |->
         IF k <= Len(sorted) THEN Num(sorted[k]) ELSE Undefined]

\* arr[k] with JavaScript's 0-based index; out of range is undefined
At(arr, k) == IF k >= 0 /\ k < Len(arr) THEN arr[k + 1] ELSE Undefined

\* quantile without the interpolation: the order statistic at base
quantileNoInterpolation(arr, q4) ==
  LET sorted == sort(arr)
      base   == ((Len(sorted) - 1) * q4) \div 4
  IN  IF IsDefined(At(sorted, base))
      THEN Num(4 * At(sorted, base)[1])
      ELSE Undefined

\* lines 209-219, for q = q4/4.  The result is held in quarters (4 times the
\* JavaScript number), which is exact for q in {0.25, 0.5, 0.75} and integer
\* prices.  sorted[base] is a number whenever sorted[base + 1] is one, so
\* the interpolation never meets undefined.
quantile(arr, q4) ==
  LET sorted == sort(arr)
      pos4   == (Len(sorted) - 1) * q4
      base   == pos4 \div 4
      rest4  == pos4 - 4 * base
  IN  IF At(sorted, base + 1) # Undefined
      THEN Num(4 * At(sorted, base)[1]
               + rest4 * (At(sorted, base + 1)[1] - At(sorted, base)[1]))
      ELSE IF IsDefined(At(sorted, base))
           THEN Num(4 * At(sorted, base)[1])
           ELSE Undefined

\* lines 187-207
calculateSalesMetrics(items) ==
  LET prices == [k \in 1..Len(items) |-> items[k].price]
  IN  [count  |-> Len(items),
       p25    |-> quantile(prices, 1),
       median |-> quantile(prices, 2),
       p75    |-> quantile(prices, 3)]

\* ----------------------------------------------------------- HTML Extractor
SPONSORED == "Shop on eBay"

\* extractCard without the test of the condition
extractCardAnyCondition(card) ==
  LET parsedPrice == parsePrice(card.price)
  IN  IF card.title # SPONSORED
      THEN << [title |-> card.title,
               price |-> IF parsedPrice.isNull THEN Undefined
                         ELSE Num(parsedPrice.value)] >>
      ELSE <<>>

\* lines 153-183, one .su-card-container element.  A card is
\* [title, price, condition, attributes]: the texts the selectors find and
\* the number of children of .su-card-container__attributes__primary.  The
\* shipping text read at line 171 and beautyCondition are never used.
\* The result is the sequence of items the card adds (none or one).
extractCard(card) ==
  LET parsedPrice == parsePrice(card.price)
  IN  IF card.title # SPONSORED /\ card.condition # ""
      THEN << [title |-> card.title,
               price |-> IF parsedPrice.isNull THEN Undefined
                         ELSE Num(parsedPrice.value)] >>
      ELSE <<>>

\* lines 149-185: html is the sequence of cards of the page, in page order
RECURSIVE extractSellItemsFromHTML(_)
extractSellItemsFromHTML(html) ==
  IF html = <<>> THEN <<>>
  ELSE extractCard(Head(html)) \o extractSellItemsFromHTML(Tail(html))

\* ------------------------------------------------------ Shipping Normalizer
\* getShippingCost without the branch for bids: such a text costs 0
getShippingCostNoUnknown(shipping) ==
  IF shipping = Undefined
  THEN [threw |-> TRUE, value |-> <<>>]
  ELSE LET sh == shipping[1] IN
       IF sh.isString
       THEN IF /\ ~includes(toLowerCase(sh.text), FREE)
               /\ ~includes(toLowerCase(sh.text), BIDS)
               /\ includes(sh.text, DELIVERY)
            THEN LET parsedShipping ==
                       parsePrice(replace(replace(sh.text, <<" ">> \o DELIVERY, <<>>),
                                          <<"+">>, <<>>))
                 IN  [threw |-> FALSE,
                      value |-> IF ~parsedShipping.isNull
                                THEN toString(parsedShipping.value)
                                ELSE toString(0)]
            ELSE [threw |-> FALSE, value |-> toString(0)]
       ELSE IF sh.extracted = Undefined
            THEN [threw |-> TRUE, value |-> <<>>]
            ELSE [threw |-> FALSE, value |-> toString(sh.extracted[1])]

\* lines 234-262.  shipping is Undefined (the field is missing), or
\* [isString, text, extracted]: a string, or an object {raw, extracted}
\* whose extracted may be undefined.  The result is [threw, value]:
\* reading .extracted of undefined and .toString() of undefined throw.
getShippingCost(shipping) ==
  IF shipping = Undefined
  THEN [threw |-> TRUE, value |-> <<>>]
  ELSE LET sh == shipping[1] IN
       IF sh.isString
       THEN IF /\ ~includes(toLowerCase(sh.text), FREE)
               /\ ~includes(toLowerCase(sh.text), BIDS)
               /\ includes(sh.text, DELIVERY)
            THEN LET formattedShipping ==
                       replace(replace(sh.text, <<" ">> \o DELIVERY, <<>>),
                               <<"+">>, <<>>)
                     parsedShipping == parsePrice(formattedShipping)
                 IN  [threw |-> FALSE,
                      value |-> IF ~parsedShipping.isNull
                                THEN toString(parsedShipping.value)
                                ELSE toString(0)]
            ELSE IF /\ ~includes(toLowerCase(sh.text), FREE)
                    /\ includes(toLowerCase(sh.text), BIDS)
                 THEN [threw |-> FALSE, value |-> UNKNOWN]
                 ELSE [threw |-> FALSE, value |-> toString(0)]
       ELSE IF sh.extracted = Undefined
            THEN [threw |-> TRUE, value |-> <<>>]
            ELSE [threw |-> FALSE, value |-> toString(sh.extracted[1])]

\* ----------------------------------------------------------- Fallback Client
\* mapSerpItem reading it.price?.raw: a missing price is the empty text
mapSerpItemOptional(it, t) ==
  LET p  == parsePrice(IF it.price = Undefined THEN <<>> ELSE it.price[1])
      sc == getShippingCost(it.shipping)
  IN  IF sc.threw
      THEN [threw |-> TRUE, item |-> Null]
      ELSE [threw |-> FALSE,
            item |-> [title     |-> it.title,
                      price     |-> Num(IF p.isNull THEN 0 ELSE p.value),
                      currency  |-> IF p.isNull \/ p.currency = ""
                                    THEN "USD" ELSE p.currency,
                      imageUrl  |-> it.thumbnail,
                      itemUrl   |-> it.link,
                      soldDate  |-> IF it.sold_at # "" THEN it.sold_at
                                    ELSE ToString(t),
                      shipping  |-> sc.value,
                      condition |-> IF it.condition # ""
                                    THEN it.condition ELSE "Unknown"]]

\* lines 288-300, one organic result.  it is
\* [title, price, thumbnail, link, sold_at, shipping, condition]; price is
\* Undefined when the result has no price field, else <<raw text>>.
\* it.price.raw throws when price is missing.
mapSerpItem(it, t) ==
  IF it.price = Undefined
  THEN [threw |-> TRUE, item |-> Null]
  ELSE LET p  == parsePrice(it.price[1])
           sc == getShippingCost(it.shipping)
       IN  IF sc.threw
           THEN [threw |-> TRUE, item |-> Null]
           ELSE [threw |-> FALSE,
                 item |-> [title     |-> it.title,
                           price     |-> Num(IF p.isNull THEN 0 ELSE p.value),
                           currency  |-> IF p.isNull \/ p.currency = ""
                                         THEN "USD" ELSE p.currency,
                           imageUrl  |-> it.thumbnail,
                           itemUrl   |-> it.link,
                           soldDate  |-> IF it.sold_at # "" THEN it.sold_at
                                         ELSE ToString(t),
                           shipping  |-> sc.value,
                           condition |-> IF it.condition # ""
                                         THEN it.condition ELSE "Unknown"]]

\* keepSerpItem without the test of the price
keepSerpItemAnyPrice(x) == x.title # "" /\ x.itemUrl # ""

\* keepSerpItem asking for the image as well
keepSerpItemWithImage(x) ==
  x.title # "" /\ x.itemUrl # "" /\ x.imageUrl # "" /\ x.price[1] > 0

\* line 301
keepSerpItem(x) == x.title # "" /\ x.itemUrl # "" /\ x.price[1] > 0

\* serpResults leaving out the results whose mapping throws
serpResultsSkipThrown(res, t) ==
  LET mapped == [k \in 1..Len(res) |-> mapSerpItem(res[k], t)]
      good   == SelectSeq(mapped, LAMBDA m : ~m.threw)
  IN  [threw |-> FALSE, isNull |-> FALSE,
       items |-> SelectSeq([k \in 1..Len(good) |-> good[k].item], keepSerpItem)]

\* lines 287-302: the results mapped in provider order, then filtered; the
\* first result whose mapping throws ends the call
serpResults(res, t) ==
  LET mapped == [k \in 1..Len(res) |-> mapSerpItem(res[k], t)]
  IN  IF \E k \in 1..Len(res) : mapped[k].threw
      THEN [threw |-> TRUE, isNull |-> FALSE, items |-> <<>>]
      ELSE [threw |-> FALSE, isNull |-> FALSE,
            items |-> SelectSeq([k \in 1..Len(res) |-> mapped[k].item],
                                keepSerpItem)]

\* fetchSerp throwing when no key is configured
fetchSerpKeyRequired(key, reply, t) ==
  IF key = "" \/ reply.rejects \/ ~reply.ok
  THEN [threw |-> TRUE, isNull |-> FALSE, items |-> <<>>]
  ELSE serpResults(reply.organic_results, t)

\* fetchSerp answering a non-success status with no results
fetchSerpSwallow(key, reply, t) ==
  IF key = ""
  THEN [threw |-> FALSE, isNull |-> TRUE, items |-> <<>>]
  ELSE IF reply.rejects
  THEN [threw |-> TRUE, isNull |-> FALSE, items |-> <<>>]
  ELSE IF ~reply.ok
  THEN [threw |-> FALSE, isNull |-> FALSE, items |-> <<>>]
  ELSE serpResults(reply.organic_results, t)

\* lines 264-303.  key is process.env.SERP_KEY ("" when not configured);
\* reply is what the provider does with the request: [rejects, ok,
\* organic_results] (a missing organic_results is the empty sequence).
\* The result is how the promise settles: [threw, isNull, items].
fetchSerp(key, reply, t) ==
  IF key = ""
  THEN [threw |-> FALSE, isNull |-> TRUE, items |-> <<>>]
  ELSE IF reply.rejects \/ ~reply.ok
  THEN [threw |-> TRUE, isNull |-> FALSE, items |-> <<>>]
  ELSE serpResults(reply.organic_results, t)

\* ------------------------------------------------------------- the responses
CORS == {"Access-Control-Allow-Origin", "Access-Control-Allow-Headers",
         "Access-Control-Allow-Methods"}

\* JSON.stringify of a number-or-undefined property: a property whose value
\* is undefined is left out of the object
JsonObject(obj, optional) ==
  LET kept == {f \in DOMAIN obj : f \in optional => IsDefined(obj[f])}
  IN  [f \in kept |-> IF f \in optional THEN obj[f][1] ELSE obj[f]]

\* JSON.stringify of {query, stats, items, source, cached}, read back as the
\* client reads it
JSONStringify(data) ==
  [query  |-> data.query,
   stats  |-> JsonObject(data.stats, {"p25", "median", "p75"}),
   items  |-> [k \in 1..Len(data.items) |->
                 JsonObject(data.items[k], {"price"})],
   source |-> data.source,
   cached |-> data.cached]

NoBody == [kind |-> "none"]

NoResponse == [statusCode |-> 0, headers |-> {}, body |-> NoBody]

\* lines 43-46: no headers property
BadRequest ==
  [statusCode |-> 400, headers |-> {},
   body |-> [kind |-> "error", error |-> "Missing query parameter q"]]

\* lines 56-64 and 120-134
Ok(data) ==
  [statusCode |-> 200, headers |-> CORS,
   body |-> [kind |-> "json", json |-> JSONStringify(data)]]

\* lines 70-78
Preflight ==
  [statusCode |-> 200, headers |-> CORS,
   body |-> [kind |-> "text", text |-> "Preflight check successful"]]

\* the catch handing the error on: the handler rejects and answers nothing
InternalErrorRethrown == [statusCode |-> 0, headers |-> {}, body |-> [kind |-> "none"]]

\* lines 137-145
InternalError ==
  [statusCode |-> 500, headers |-> CORS,
   body |-> [kind |-> "error", error |-> "Internal Server Error"]]

\* lines 97-103 and 109-115: the object stored in cache.data
Payload(q, stats, its, source, cached) ==
  [query |-> q, stats |-> stats, items |-> its, source |-> source,
   cached |-> cached]

\* CacheWrite storing the payload as it is returned, cached: false
CacheWriteUncached(q, stats, its, source, t) ==
  [data |-> Payload(q, stats, its, source, FALSE), timestamp |-> t, query |-> q]

\* CacheWrite keying the slot by the trimmed query
CacheWriteTrimmedKey(q, stats, its, source, t) ==
  [data |-> Payload(q, stats, its, source, TRUE), timestamp |-> t,
   query |-> trim(q)]

\* lines 97-105 and 109-117
CacheWrite(q, stats, its, source, t) ==
  [data |-> Payload(q, stats, its, source, TRUE), timestamp |-> t, query |-> q]

\* TooFew with the threshold at 2
TooFewTwo(its) == Len(its) < 2

\* TooFew with 3 listings counted as too few
TooFewInclusive(its) == Len(its) <= 3

\* line 91: !items || items.length < 3
TooFew(its) == Len(its) < 3

\* ------------------------------------------------------------------- inputs
RECURSIVE SeqsUpTo(_, _)
SeqsUpTo(S, n) ==
  IF n = 0 THEN {<<>>}
  ELSE LET shorter == SeqsUpTo(S, n - 1)
       IN  shorter \cup {Append(s, x) : s \in shorter, x \in S}

TV == <<"t", "v">>

\* event.httpMethod and event.queryStringParameters: q missing, empty,
\* blank, and two queries that differ only by a trailing space
Events ==
  [httpMethod : {"GET", "OPTIONS"}, hasQ : {TRUE}, q : {<<>>, <<" ">>, TV, TV \o <<" ">>}]
  \cup [httpMethod : {"GET", "OPTIONS"}, hasQ : {FALSE}, q : {<<>>}]

NoEvent == [httpMethod |-> "", hasQ |-> FALSE, q |-> <<>>]

Cards ==
  { [title |-> "A", price |-> <<"$", "5">>, condition |-> "New", attributes |-> 3],
    [title |-> SPONSORED, price |-> <<"$", "5">>, condition |-> "New", attributes |-> 3] }

\* what `await client.get` and `response.data` give: the call rejects, or
\* the response carries no markup (cheerio.load throws), or a page of cards
PrimaryReplies ==
  { [rejects |-> TRUE, hasData |-> FALSE, html |-> <<>>],
    [rejects |-> FALSE, hasData |-> FALSE, html |-> <<>>] }
  \cup [rejects : {FALSE}, hasData : {TRUE}, html : SeqsUpTo(Cards, MaxCards)]

Delivery3 == <<"+", "$", "3", " ">> \o DELIVERY

Result ==
  [title |-> "B", price |-> << <<"$", "7">> >>, thumbnail |-> "img",
   link |-> "url", sold_at |-> "2024-05-01",
   shipping |-> << [isString |-> TRUE, text |-> Delivery3, extracted |-> Undefined] >>,
   condition |-> "Used"]

Results ==
  { Result,
    [Result EXCEPT !.link = ""],
    [Result EXCEPT !.price = Undefined] }

\* what the fallback provider does with a request
SerpReplies ==
  { [rejects |-> TRUE, ok |-> FALSE, organic_results |-> <<>>],
    [rejects |-> FALSE, ok |-> FALSE, organic_results |-> <<>>] }
  \cup [rejects : {FALSE}, ok : {TRUE},
        organic_results : SeqsUpTo(Results, MaxResults)]

\* the clock moves by one of these steps
ClockSteps == {CACHE_DURATION - 1, CACHE_DURATION}

\* -------------------------------------------------------------------- state
VARIABLES
  cache,      \* the module-level cache object (lines 13-17)
  now,        \* Date.now()
  SERP_KEY,   \* process.env.SERP_KEY, "" when not configured
  pc,         \* where each invocation is: idle, primary, serp, done
  event,      \* the event of each invocation
  items,      \* the local `items` of each invocation (lines 86 and 93)
  serpItems,  \* the local `serpItems` (line 92), Undefined until assigned
  resp,       \* the HandlerResponse each invocation returned
  calls,      \* upstream requests each invocation has issued
  pending,    \* upstream requests in flight for each invocation
  upstream,   \* how the upstream calls of each invocation ended
  arg,        \* a helper function called on its own, and its argument
  ret         \* what that call returned, Undefined until it has

vars == <<cache, now, SERP_KEY, pc, event, items, serpItems, resp, calls,
          pending, upstream, arg, ret>>

NoArg == [fn |-> "none", val |-> <<>>]

NoCalls == [primary |-> 0, serp |-> 0]

NoUpstream == [primary |-> "none", serp |-> "none"]

Init ==
  /\ cache = EmptyCache
  /\ now = 1
  /\ SERP_KEY \in {"", "key"}
  /\ pc = [i \in Inv |-> "idle"]
  /\ event = [i \in Inv |-> NoEvent]
  /\ items = [i \in Inv |-> <<>>]
  /\ serpItems = [i \in Inv |-> Undefined]
  /\ resp = [i \in Inv |-> NoResponse]
  /\ calls = [i \in Inv |-> NoCalls]
  /\ pending = [i \in Inv |-> {}]
  /\ upstream = [i \in Inv |-> NoUpstream]
  /\ arg = NoArg
  /\ ret = Undefined

\* The host takes the response as soon as the handler returns it: after a
\* return, Finish is the next step, and resp keeps the response until then.
Delivered == \A j \in Inv : pc[j] # "done"

\* the invocation returns r
Return(i, r) ==
  /\ pc' = [pc EXCEPT ![i] = "done"]
  /\ resp' = [resp EXCEPT ![i] = r]
  /\ pending' = [pending EXCEPT ![i] = {}]

\* lines 35-83: validation, cache check, preflight, primary request
Start(i, ev) ==
  /\ Delivered
  /\ pc[i] = "idle"
  /\ event' = [event EXCEPT ![i] = ev]
  /\ UNCHANGED <<cache, now, SERP_KEY, items, serpItems, upstream, arg, ret>>
  /\ IF MissingQuery(ev)
     THEN Return(i, BadRequest) /\ UNCHANGED calls
     ELSE IF CacheHit(cache, ev.q, now)
     THEN Return(i, Ok(cache.data)) /\ UNCHANGED calls
     ELSE IF ev.httpMethod = "OPTIONS"
     THEN Return(i, Preflight) /\ UNCHANGED calls
     ELSE /\ pc' = [pc EXCEPT ![i] = "primary"]
          /\ pending' = [pending EXCEPT ![i] =
               {[to |-> "scrapingbee", query |-> formatItemName(ev.q)]}]
          /\ calls' = [calls EXCEPT ![i].primary = @ + 1]
          /\ UNCHANGED resp

PrimaryOutcome(reply) ==
  IF reply.rejects THEN "rejected"
  ELSE IF ~reply.hasData THEN "nodata" ELSE "page"

\* lines 83-91 and, on the primary branch, 106-134; 135-146 on a throw
PrimaryDone(i, reply) ==
  /\ Delivered
  /\ pc[i] = "primary"
  /\ upstream' = [upstream EXCEPT ![i].primary = PrimaryOutcome(reply)]
  /\ UNCHANGED <<now, SERP_KEY, event, serpItems, arg, ret>>
  /\ IF reply.rejects \/ ~reply.hasData
     THEN /\ Return(i, InternalError)
          /\ UNCHANGED <<cache, items, calls>>
     ELSE LET q     == event[i].q
              its   == extractSellItemsFromHTML(reply.html)
              stats == calculateSalesMetrics(its)
          IN  /\ items' = [items EXCEPT ![i] = its]
              /\ IF TooFew(its)
                 THEN /\ pc' = [pc EXCEPT ![i] = "serp"]
                      /\ pending' = [pending EXCEPT ![i] =
                           IF SERP_KEY = "" THEN {}
                           ELSE {[to |-> "serpapi", query |-> q]}]
                      /\ calls' = [calls EXCEPT ![i].serp =
                           IF SERP_KEY = "" THEN @ ELSE @ + 1]
                      /\ UNCHANGED <<cache, resp>>
                 ELSE /\ cache' = CacheWrite(q, stats, its, "scrapingbee", now)
                      /\ Return(i, Ok(Payload(q, stats, its, "scrapingbee", FALSE)))
                      /\ UNCHANGED calls

\* an organic result without a price field, without a shipping field, or
\* with a shipping object without `extracted`
Malformed(it) ==
  \/ it.price = Undefined
  \/ it.shipping = Undefined
  \/ ~it.shipping[1].isString /\ it.shipping[1].extracted = Undefined

SerpOutcome(key, reply) ==
  IF key = "" THEN "nokey"
  ELSE IF reply.rejects THEN "rejected"
  ELSE IF ~reply.ok THEN "status"
  ELSE IF \E k \in 1..Len(reply.organic_results) :
            Malformed(reply.organic_results[k])
  THEN "malformed" ELSE "results"

\* lines 92-105 and 120-134; 135-146 on a throw
SerpDone(i, reply) ==
  /\ Delivered
  /\ pc[i] = "serp"
  /\ SERP_KEY = "" => reply = [rejects |-> TRUE, ok |-> FALSE, organic_results |-> <<>>]
  /\ upstream' = [upstream EXCEPT ![i].serp = SerpOutcome(SERP_KEY, reply)]
  /\ UNCHANGED <<now, SERP_KEY, event, calls, arg, ret>>
  /\ LET r == fetchSerp(SERP_KEY, reply, now)
     IN  IF r.threw
         THEN /\ Return(i, InternalError)
              /\ UNCHANGED <<cache, items, serpItems>>
         ELSE LET q     == event[i].q
                  its   == IF r.isNull THEN <<>> ELSE r.items
                  stats == calculateSalesMetrics(its)
              IN  /\ serpItems' = [serpItems EXCEPT ![i] = <<its>>]
                  /\ items' = [items EXCEPT ![i] = its]
                  /\ cache' = CacheWrite(q, stats, its, "serpapi", now)
                  /\ Return(i, Ok(Payload(q, stats, its, "serpapi", FALSE)))

\* the host has delivered the response; the next request can come in
Finish(i) ==
  /\ pc[i] = "done"
  /\ pc' = [pc EXCEPT ![i] = "idle"]
  /\ event' = [event EXCEPT ![i] = NoEvent]
  /\ items' = [items EXCEPT ![i] = <<>>]
  /\ serpItems' = [serpItems EXCEPT ![i] = Undefined]
  /\ resp' = [resp EXCEPT ![i] = NoResponse]
  /\ calls' = [calls EXCEPT ![i] = NoCalls]
  /\ upstream' = [upstream EXCEPT ![i] = NoUpstream]
  /\ UNCHANGED <<cache, now, SERP_KEY, pending, arg, ret>>

\* time passes
Tick(d) ==
  /\ Delivered
  /\ now + d <= 1 + MaxSpans * CACHE_DURATION
  /\ now' = now + d
  /\ UNCHANGED <<cache, SERP_KEY, pc, event, items, serpItems, resp, calls,
                 pending, upstream, arg, ret>>

Next ==
  \/ \E i \in Inv, ev \in Events : Start(i, ev)
  \/ \E i \in Inv, reply \in PrimaryReplies : PrimaryDone(i, reply)
  \/ \E i \in Inv, reply \in SerpReplies : SerpDone(i, reply)
  \/ \E i \in Inv : Finish(i)
  \/ \E d \in ClockSteps : Tick(d)

Spec == Init /\ [][Next]_vars

\* Every upstream call settles and every response is delivered.  The
\* continuation of an invocation runs as soon as its call has settled and no
\* other continuation is running; other requests coming and going do not
\* postpone it for ever, hence strong fairness for the two continuations.
FairSpec ==
  /\ Spec
  /\ \A i \in Inv :
       /\ SF_vars(\E reply \in PrimaryReplies : PrimaryDone(i, reply))
       /\ SF_vars(\E reply \in SerpReplies : SerpDone(i, reply))
       /\ WF_vars(Finish(i))

\* ------------------------------------------- the helpers called on their own
\* prices of a listing and listings in a sequence given to the calculator
MaxPrice == 5
MaxLen == 4

UnitCards ==
  { [title |-> "A", price |-> <<"$", "5">>, condition |-> "New", attributes |-> 3],
    [title |-> "B", price |-> <<"$", "9">>, condition |-> "Used", attributes |-> 0],
    [title |-> SPONSORED, price |-> <<"$", "5">>, condition |-> "New", attributes |-> 3],
    [title |-> "C", price |-> <<"$", "7">>, condition |-> "", attributes |-> 3],
    [title |-> "D", price |-> <<>>, condition |-> "New", attributes |-> 0],
    [title |-> "E", price |-> <<"N", "/", "A">>, condition |-> "New", attributes |-> 3] }

UnitPages == SeqsUpTo(UnitCards, MaxCards)

UnitListings == [title : {"A"}, price : {Num(p) : p \in 1..MaxPrice}]

UnitItems == SeqsUpTo(UnitListings, MaxLen)

ShippingText(text) == << [isString |-> TRUE, text |-> text, extracted |-> Undefined] >>

ShippingObject(extracted) == << [isString |-> FALSE, text |-> <<>>, extracted |-> extracted] >>

UnitTexts ==
  { <<>>,
    <<"F", "r", "e", "e", " ">> \o DELIVERY,
    <<"F", "R", "E", "E">>,
    Delivery3,
    <<"+", "$", "1", "2", " ">> \o DELIVERY,
    <<"N", "/", "A", " ">> \o DELIVERY,
    <<"$", "3", " ", "D", "e", "l", "i", "v", "e", "r", "y">>,
    <<"3", " ">> \o BIDS,
    <<"2", " ", "B", "i", "d", "s">>,
    Delivery3 \o <<" ", "2", " ">> \o BIDS,
    FREE \o <<" ", "3", " ">> \o BIDS,
    <<"p", "i", "c", "k", "u", "p">> }

UnitShippings ==
  {Undefined}
  \cup {ShippingText(text) : text \in UnitTexts}
  \cup {ShippingObject(e) : e \in {Undefined, Num(0), Num(4), Num(12)}}

UnitResults ==
  { Result,
    [Result EXCEPT !.title = "C", !.shipping = ShippingObject(Num(4)), !.sold_at = ""],
    [Result EXCEPT !.title = "D", !.thumbnail = ""],
    [Result EXCEPT !.title = "E", !.link = ""],
    [Result EXCEPT !.title = ""],
    [Result EXCEPT !.title = "F", !.price = << <<"N", "/", "A">> >>],
    [Result EXCEPT !.title = "G", !.price = << <<>> >>],
    [Result EXCEPT !.title = "H", !.price = << <<"$", "0">> >>],
    [Result EXCEPT !.title = "I", !.price = Undefined],
    [Result EXCEPT !.title = "J", !.shipping = Undefined],
    [Result EXCEPT !.title = "K", !.shipping = ShippingObject(Undefined)] }

UnitSerpReplies ==
  { [rejects |-> TRUE, ok |-> FALSE, organic_results |-> <<>>],
    [rejects |-> FALSE, ok |-> FALSE, organic_results |-> <<>>] }
  \cup [rejects : {FALSE}, ok : {TRUE},
        organic_results : SeqsUpTo(UnitResults, MaxResults)]

UnitArgs ==
  [fn : {"extractSellItemsFromHTML"}, val : UnitPages]
  \cup [fn : {"calculateSalesMetrics"}, val : UnitItems]
  \cup [fn : {"getShippingCost"}, val : UnitShippings]
  \cup [fn : {"fetchSerp"}, val : [key : {"key"}, reply : UnitSerpReplies]]
  \cup [fn : {"fetchSerp"}, val : [key : {""}, reply : {[rejects |-> TRUE, ok |-> FALSE, organic_results |-> <<>>]}]]

\* no request is being handled; one helper is about to be called
UnitInit ==
  /\ cache = EmptyCache
  /\ now = 1
  /\ SERP_KEY = "key"
  /\ pc = [i \in Inv |-> "idle"]
  /\ event = [i \in Inv |-> NoEvent]
  /\ items = [i \in Inv |-> <<>>]
  /\ serpItems = [i \in Inv |-> Undefined]
  /\ resp = [i \in Inv |-> NoResponse]
  /\ calls = [i \in Inv |-> NoCalls]
  /\ pending = [i \in Inv |-> {}]
  /\ upstream = [i \in Inv |-> NoUpstream]
  /\ arg \in UnitArgs
  /\ ret = Undefined

Returns(fn, value) ==
  /\ arg.fn = fn
  /\ ret = Undefined
  /\ ret' = <<value>>
  /\ UNCHANGED <<cache, now, SERP_KEY, pc, event, items, serpItems, resp,
                 calls, pending, upstream, arg>>

CallExtract ==
  Returns("extractSellItemsFromHTML", extractSellItemsFromHTML(arg.val))

CallStats == Returns("calculateSalesMetrics", calculateSalesMetrics(arg.val))

CallShipping == Returns("getShippingCost", getShippingCost(arg.val))

CallFetchSerp == Returns("fetchSerp", fetchSerp(arg.val.key, arg.val.reply, now))

UnitNext == CallExtract \/ CallStats \/ CallShipping \/ CallFetchSerp

UnitSpec == UnitInit /\ [][UnitNext]_vars

\* ================================================================== claims
SixtyMinutes == 60 * 60 * 1000

Blank(q) == \A k \in 1..Len(q) : q[k] = " "

IsJson(r) == r.statusCode = 200 /\ r.body.kind = "json"

\* the invocation answered from the cache / with a freshly computed payload
AnsweredFromCache(i) == pc[i] = "done" /\ IsJson(resp[i]) /\ resp[i].body.json.cached

AnsweredFresh(i) == pc[i] = "done" /\ IsJson(resp[i]) /\ ~resp[i].body.json.cached

\* a request comes in for invocation i in this step
Arrives(i) == pc[i] = "idle" /\ pc'[i] # "idle"

\* the slot holds the result of a successful run for q, younger than 60 minutes
StoredFor(q) ==
  /\ cache.data # Null
  /\ cache.data.query = q
  /\ now - cache.timestamp < SixtyMinutes

\* C1: a request for q that arrives while the slot holds the result of a
\* successful run for the identical q, less than 60 minutes old, is answered
\* 200 with the stored payload, cached = true, calls neither provider and
\* leaves the slot unchanged.
C1_HitServesStored ==
  [][\A i \in Inv :
       (Arrives(i) /\ event'[i].hasQ /\ StoredFor(event'[i].q)) =>
         /\ pc'[i] = "done"
         /\ IsJson(resp'[i])
         /\ resp'[i].body.json = JSONStringify(cache.data)
         /\ resp'[i].body.json.cached = TRUE
         /\ calls'[i] = NoCalls
         /\ pending'[i] = {}
         /\ cache' = cache]_vars

\* a hit on an entry one millisecond short of 60 minutes old
C1_Witness ==
  \E i \in Inv :
    /\ AnsweredFromCache(i)
    /\ calls[i] = NoCalls
    /\ now - cache.timestamp = SixtyMinutes - 1

\* C2: for a non-blank q the cache check hits exactly when an entry exists,
\* its query equals q exactly and now - timestamp < 60 minutes; on a miss a
\* request that is not a preflight calls the primary provider.
C2_HitIff ==
  [][\A i \in Inv :
       (Arrives(i) /\ event'[i].hasQ /\ ~Blank(event'[i].q)) =>
         LET hit == /\ cache.data # Null
                    /\ cache.query = event'[i].q
                    /\ now - cache.timestamp < SixtyMinutes
         IN  /\ (pc'[i] = "done" /\ IsJson(resp'[i])) <=> hit
             /\ (~hit /\ event'[i].httpMethod # "OPTIONS") =>
                  /\ pc'[i] = "primary"
                  /\ calls'[i].primary = 1
                  /\ \E r \in pending'[i] : r.to = "scrapingbee"]_vars

\* the same query exactly 60 minutes after the entry was stored goes to the
\* primary provider
C2_Witness ==
  \E i \in Inv :
    /\ pc[i] = "primary"
    /\ cache.data # Null
    /\ cache.query = event[i].q
    /\ now - cache.timestamp = SixtyMinutes

\* a query that differs from the stored one by a trailing space misses a
\* fresh entry
C2_WitnessOtherQuery ==
  \E i \in Inv :
    /\ pc[i] = "primary"
    /\ cache.data # Null
    /\ cache.query # event[i].q
    /\ trim(cache.query) = trim(event[i].q)
    /\ now = cache.timestamp

\* C3: on an uncached request, 3 or more extracted listings are answered
\* from the primary provider (source scrapingbee, the extracted listings, no
\* fallback call); fewer than 3 (2, 1 or none) take the fallback path, and a
\* 200 answer on that path has source serpapi and exactly the fallback's
\* results as items, whatever the primary listings were.
C3_BranchSelection ==
  [][\A i \in Inv :
       /\ (pc[i] = "primary" /\ upstream'[i].primary = "page") =>
            IF Len(items'[i]) >= 3
            THEN /\ AnsweredFresh(i)'
                 /\ resp'[i].body.json.source = "scrapingbee"
                 /\ resp'[i].body.json.items =
                      JSONStringify(Payload(<<>>, calculateSalesMetrics(<<>>),
                                            items'[i], "", FALSE)).items
                 /\ calls'[i].serp = 0
                 /\ upstream'[i].serp = "none"
            ELSE /\ pc'[i] = "serp"
                 /\ resp'[i] = NoResponse
                 /\ cache' = cache
       /\ (pc[i] = "serp" /\ pc'[i] = "done" /\ resp'[i].statusCode = 200) =>
            /\ Len(items[i]) < 3
            /\ AnsweredFresh(i)'
            /\ resp'[i].body.json.source = "serpapi"
            /\ serpItems'[i] # Undefined
            /\ resp'[i].body.json.items =
                 JSONStringify(Payload(<<>>, calculateSalesMetrics(<<>>),
                                       serpItems'[i][1], "", FALSE)).items
            /\ \E reply \in SerpReplies :
                 LET r == fetchSerp(SERP_KEY, reply, now)
                 IN  ~r.threw /\ serpItems'[i][1] = r.items]_vars

\* exactly 3 primary listings answered from the primary provider
C3_Witness ==
  \E i \in Inv :
    /\ AnsweredFresh(i)
    /\ resp[i].body.json.source = "scrapingbee"
    /\ Len(resp[i].body.json.items) = 3
    /\ calls[i] = [primary |-> 1, serp |-> 0]

\* exactly 2 primary listings waiting for the fallback provider
C3_WitnessTwo ==
  \E i \in Inv : pc[i] = "serp" /\ Len(items[i]) = 2 /\ calls[i].serp = 1

\* C4: when a step of an uncached run fails (the primary call rejects, the
\* extraction throws, the fallback call rejects or reports a non-success
\* status, the mapping of a result throws) the handler answers 500 and the
\* cache is what it was before that step; no 500 answer changes the cache.
FailedUpstream(u) ==
  \/ u.primary \in {"rejected", "nodata"}
  \/ u.serp \in {"rejected", "status", "malformed"}

C4_FailureLeavesCache ==
  [][\A i \in Inv :
       /\ (upstream'[i] # upstream[i] /\ FailedUpstream(upstream'[i])) =>
            /\ pc'[i] = "done"
            /\ resp'[i].statusCode = 500
            /\ resp'[i].body.kind = "error"
            /\ cache' = cache
       /\ (pc'[i] = "done" /\ pc[i] # "done" /\ resp'[i].statusCode = 500) =>
            cache' = cache]_vars

\* a result without a price field ends the run with 500 while the slot
\* holds an earlier entry
C4_Witness ==
  \E i \in Inv :
    /\ pc[i] = "done"
    /\ upstream[i].serp = "malformed"
    /\ resp[i].statusCode = 500
    /\ cache.data # Null

\* C5: a request whose q is missing, empty or made of spaces is answered
\* 400, calls neither provider and leaves the cache unchanged, whatever the
\* slot holds.
C5_BlankQuery ==
  [][\A i \in Inv :
       (Arrives(i) /\ (~event'[i].hasQ \/ Blank(event'[i].q))) =>
         /\ pc'[i] = "done"
         /\ resp'[i].statusCode = 400
         /\ resp'[i].body.kind = "error"
         /\ calls'[i] = NoCalls
         /\ pending'[i] = {}
         /\ cache' = cache]_vars

\* a whitespace-only q answered 400 while a fresh entry is stored
C5_Witness ==
  \E i \in Inv :
    /\ pc[i] = "done"
    /\ event[i].hasQ /\ event[i].q = <<" ">>
    /\ resp[i].statusCode = 400
    /\ cache.data # Null
    /\ now - cache.timestamp < SixtyMinutes

\* C6: a successful uncached run, on either branch and also with no
\* listings, leaves in the slot {query, stats, items, source, cached: true}
\* with the current time, and returns a payload equal to the stored one in
\* query, stats, items and source, with cached = false.
C6_WriteAndRespond ==
  \A i \in Inv :
    AnsweredFresh(i) =>
      /\ cache.query = event[i].q
      /\ cache.timestamp = now
      /\ cache.data # Null
      /\ DOMAIN cache.data = {"query", "stats", "items", "source", "cached"}
      /\ cache.data.query = event[i].q
      /\ cache.data.items = items[i]
      /\ cache.data.stats = calculateSalesMetrics(items[i])
      /\ cache.data.source \in {"scrapingbee", "serpapi"}
      /\ cache.data.source = "serpapi" <=> upstream[i].serp # "none"
      /\ cache.data.cached = TRUE
      /\ resp[i].body.json.cached = FALSE
      /\ resp[i].body.json = [JSONStringify(cache.data) EXCEPT !.cached = FALSE]

\* a fallback run with no listings stored over an older entry
C6_Witness ==
  \E i \in Inv :
    /\ AnsweredFresh(i)
    /\ cache.data.source = "serpapi"
    /\ cache.data.items = <<>>
    /\ cache.data.stats.count = 0
    /\ cache.timestamp > 1

\* a primary run stored
C6_WitnessPrimary ==
  \E i \in Inv :
    /\ AnsweredFresh(i)
    /\ cache.data.source = "scrapingbee"
    /\ Len(cache.data.items) >= 3

\* C7: every response the handler returns carries the permissive
\* cross-origin headers.
C7_CorsEverywhere ==
  \A i \in Inv : pc[i] = "done" => CORS \subseteq resp[i].headers

\* C7, the paths other than the 400 answer: cache hit, preflight, fresh
\* result and 500 carry the headers
C7_CorsExceptBadRequest ==
  \A i \in Inv :
    (pc[i] = "done" /\ resp[i].statusCode # 400) => CORS \subseteq resp[i].headers

\* an invocation was answered from the cache with a payload for another
\* query than the one it asked for
ForeignPayload ==
  \E i \in Inv : AnsweredFromCache(i) /\ resp[i].body.json.query # event[i].q

\* every write replaces the slot by the writer's entry, whatever the other
\* invocation stored before
LastWriterWins ==
  [][\A i \in Inv :
       (pc[i] # "done" /\ AnsweredFresh(i)') =>
         /\ cache'.query = event[i].q
         /\ cache'.data.query = event[i].q
         /\ cache'.data.items = items'[i]
         /\ cache'.timestamp = now]_vars

\* C8, as stated: the last writer wins and some interleaving of two
\* overlapping invocations answers one of them from the cache with the
\* payload of another query.
C8_ForeignPayloadReached == LastWriterWins /\ <>ForeignPayload

\* C8, amended: the last writer wins, and no invocation is ever answered
\* from the cache with a payload whose query differs from the one it asked
\* for.
C8_LastWriterNoForeign == LastWriterWins /\ []~ForeignPayload

\* two invocations for different queries overlap: one has overwritten the
\* slot while the other, which found the slot holding neither query's
\* fresh entry, is still waiting for its upstream call
C8_Witness ==
  \E i, j \in Inv :
    /\ i # j
    /\ AnsweredFresh(i)
    /\ pc[j] \in {"primary", "serp"}
    /\ event[i].q # event[j].q
    /\ cache.query = event[i].q
    /\ cache.timestamp > 1

\* C9: without a fallback key, fewer than 3 primary listings make no
\* fallback request and end in a 200 answer with no items, count 0 and
\* source serpapi, and that empty payload is stored.
C9_NoKeySoftFailure ==
  /\ [](\A i \in Inv :
          (SERP_KEY = "" /\ pc[i] = "serp") =>
            /\ Len(items[i]) < 3
            /\ calls[i].serp = 0
            /\ pending[i] = {})
  /\ [][\A i \in Inv :
          (SERP_KEY = "" /\ pc[i] = "serp" /\ pc'[i] # "serp") =>
            /\ AnsweredFresh(i)'
            /\ resp'[i].body.json.items = <<>>
            /\ resp'[i].body.json.stats.count = 0
            /\ resp'[i].body.json.source = "serpapi"
            /\ calls'[i].serp = 0
            /\ cache'.query = event[i].q
            /\ cache'.data = Payload(event[i].q, calculateSalesMetrics(<<>>),
                                     <<>>, "serpapi", TRUE)]_vars

\* two primary listings, no key: answered 200 with nothing
C9_Witness ==
  \E i \in Inv :
    /\ SERP_KEY = ""
    /\ AnsweredFresh(i)
    /\ upstream[i].serp = "nokey"
    /\ resp[i].body.json.items = <<>>
    /\ cache.data.items = <<>>
    /\ calls[i] = [primary |-> 1, serp |-> 0]

\* C10: a non-success status of the fallback provider makes fetchSerp throw
\* (it settles with no listing sequence), and the request ends with the 500
\* answer, never a 200 payload.
C10_StatusIsFatal ==
  /\ \A reply \in SerpReplies :
       (~reply.rejects /\ ~reply.ok) => fetchSerp("key", reply, now).threw
  /\ \A i \in Inv :
       (pc[i] = "done" /\ upstream[i].serp = "status") =>
         /\ resp[i].statusCode = 500
         /\ resp[i].body.kind = "error"
         /\ serpItems[i] = Undefined

\* a fallback request was made and answered with a non-success status
C10_Witness ==
  \E i \in Inv :
    /\ pc[i] = "done"
    /\ upstream[i].serp = "status"
    /\ calls[i].serp = 1
    /\ resp[i].statusCode = 500

\* a helper was called and has returned
Returned(fn) == arg.fn = fn /\ ret # Undefined

\* fetchSerp was called with a key and has returned a sequence of listings
SerpReturned ==
  /\ Returned("fetchSerp")
  /\ arg.val.key # ""
  /\ ~ret[1].threw

\* C11: every listing that reaches a response or the cache has a non-empty
\* title and a numeric price; a primary listing has no placeholder title, a
\* fallback listing has an itemUrl and a positive price.
C11_ListingsValid ==
  /\ Returned("extractSellItemsFromHTML") =>
       \A k \in 1..Len(ret[1]) :
         /\ ret[1][k].title # ""
         /\ ret[1][k].title # SPONSORED
         /\ IsDefined(ret[1][k].price)
  /\ SerpReturned =>
       \A k \in 1..Len(ret[1].items) :
         /\ ret[1].items[k].title # ""
         /\ ret[1].items[k].itemUrl # ""
         /\ IsDefined(ret[1].items[k].price)
         /\ ret[1].items[k].price[1] > 0

\* the provider's result has a title, a link and a price text that parses
\* to a positive number
Retained(it) ==
  /\ it.title # ""
  /\ it.link # ""
  /\ ~parsePrice(it.price[1]).isNull
  /\ parsePrice(it.price[1]).value > 0

RECURSIVE RetainedOf(_)
RetainedOf(res) ==
  IF res = <<>> THEN <<>>
  ELSE IF Retained(Head(res)) THEN <<Head(res)>> \o RetainedOf(Tail(res))
       ELSE RetainedOf(Tail(res))

\* C13: the sequence the fallback client returns is exactly the provider's
\* results that have a title, a link and a positive parsed price, mapped, in
\* provider order; a result with an empty link, or an empty, unparseable or
\* non-positive price is not in it.
C13_FallbackFilter ==
  SerpReturned =>
    LET res  == arg.val.reply.organic_results
        kept == RetainedOf(res)
        out  == ret[1].items
    IN  /\ Len(out) = Len(kept)
        /\ \A k \in 1..Len(out) :
             /\ out[k].title = kept[k].title
             /\ out[k].itemUrl = kept[k].link
             /\ out[k].imageUrl = kept[k].thumbnail
             /\ out[k].price = Num(parsePrice(kept[k].price[1]).value)
             /\ out[k].itemUrl # ""
             /\ out[k].price[1] > 0

\* two results, the first with a price of zero: only the second is returned
C13_Witness ==
  /\ SerpReturned
  /\ Len(arg.val.reply.organic_results) = 2
  /\ arg.val.reply.organic_results[1].price = << <<"$", "0">> >>
  /\ Len(ret[1].items) = 1
  /\ ret[1].items[1].title = arg.val.reply.organic_results[2].title

\* C14, as stated: no listing returned by the fallback client has an empty
\* imageUrl.
C14_ImageRequired ==
  SerpReturned =>
    \A k \in 1..Len(ret[1].items) :
      ret[1].items[k].imageUrl # "" /\ ret[1].items[k].itemUrl # ""

\* C14, amended: a fallback listing is retained only if its itemUrl is
\* present; its imageUrl is not looked at, and a result without a thumbnail
\* that has a title, a link and a positive price is returned with an empty
\* imageUrl.
C14_LinkRequiredImageNot ==
  SerpReturned =>
    /\ \A k \in 1..Len(ret[1].items) : ret[1].items[k].itemUrl # ""
    /\ \A j \in 1..Len(arg.val.reply.organic_results) :
         LET it == arg.val.reply.organic_results[j]
         IN  (Retained(it) /\ it.thumbnail = "") =>
               \E k \in 1..Len(ret[1].items) :
                 /\ ret[1].items[k].title = it.title
                 /\ ret[1].items[k].imageUrl = ""

\* a listing without an image is returned
C14_Witness ==
  /\ SerpReturned
  /\ \E k \in 1..Len(ret[1].items) : ret[1].items[k].imageUrl = ""

\* C12: an invocation never has its primary and its fallback request in
\* flight together; the fallback request goes out only in the step in which
\* the primary call has returned a page with fewer than 3 listings; an
\* invocation makes at most one primary and one fallback request, and none
\* when it is answered 400 or from the cache.
C12_SequentialFetches ==
  /\ [](\A i \in Inv :
          /\ Cardinality(pending[i]) <= 1
          /\ calls[i].primary <= 1
          /\ calls[i].serp <= 1
          /\ calls[i].serp = 1 =>
               (calls[i].primary = 1 /\ upstream[i].primary = "page")
          /\ (\E r \in pending[i] : r.to = "serpapi") =>
               (pc[i] = "serp" /\ Len(items[i]) < 3)
          /\ (\E r \in pending[i] : r.to = "scrapingbee") =>
               (pc[i] = "primary" /\ calls[i].serp = 0)
          /\ (pc[i] = "done" /\ resp[i].statusCode = 400) => calls[i] = NoCalls
          /\ AnsweredFromCache(i) => calls[i] = NoCalls)
  /\ [][\A i \in Inv :
          calls'[i].serp > calls[i].serp =>
            /\ pc[i] = "primary"
            /\ upstream'[i].primary = "page"
            /\ Len(items'[i]) < 3
            /\ pending'[i] = {[to |-> "serpapi", query |-> event[i].q]}]_vars

\* the fallback request of an invocation is in flight after its primary
\* call returned two listings
C12_Witness ==
  \E i \in Inv :
    /\ pending[i] = {[to |-> "serpapi", query |-> event[i].q]}
    /\ calls[i] = [primary |-> 1, serp |-> 1]
    /\ Len(items[i]) = 2

\* the k-th smallest of the prices (k from 1)
OrderStat(prices, k) ==
  CHOOSE v \in {prices[j] : j \in 1..Len(prices)} :
    /\ Cardinality({j \in 1..Len(prices) : prices[j] < v}) < k
    /\ k <= Cardinality({j \in 1..Len(prices) : prices[j] <= v})

\* the R-7 quantile q4/4 of the prices, in quarters; absent for no prices
R7(prices, q4) ==
  LET n    == Len(prices)
      pos4 == (n - 1) * q4
      lo   == pos4 \div 4
      fr   == pos4 % 4
  IN  IF n = 0 THEN Undefined
      ELSE IF lo + 2 > n THEN Num(4 * OrderStat(prices, lo + 1))
      ELSE Num(4 * OrderStat(prices, lo + 1)
               + fr * (OrderStat(prices, lo + 2) - OrderStat(prices, lo + 1)))

PricesOf(its) == [k \in 1..Len(its) |-> its[k].price[1]]

\* C15: for listings with numeric prices the calculator returns count = the
\* number of listings and the R-7 quantiles of the prices for 0.25, 0.5 and
\* 0.75: 1.75 / 2.5 / 3.25 for [1,2,3,4], the element itself for a single
\* listing, and count 0 with the three quantiles absent for no listings.
C15_Quantiles ==
  Returned("calculateSalesMetrics") =>
    LET prices == PricesOf(arg.val)
        stats  == ret[1]
    IN  /\ stats.count = Len(arg.val)
        /\ stats.p25 = R7(prices, 1)
        /\ stats.median = R7(prices, 2)
        /\ stats.p75 = R7(prices, 3)
        /\ prices = <<1, 2, 3, 4>> =>
             (stats.p25 = Num(7) /\ stats.median = Num(10) /\ stats.p75 = Num(13))
        /\ Len(prices) = 1 =>
             /\ stats.p25 = Num(4 * prices[1])
             /\ stats.median = Num(4 * prices[1])
             /\ stats.p75 = Num(4 * prices[1])
        /\ prices = <<>> =>
             /\ stats.count = 0
             /\ stats.p25 = Undefined
             /\ stats.median = Undefined
             /\ stats.p75 = Undefined
             /\ DOMAIN JsonObject(stats, {"p25", "median", "p75"}) = {"count"}

\* the quartiles of [4,1,3,2], given unsorted
C15_Witness ==
  /\ Returned("calculateSalesMetrics")
  /\ PricesOf(arg.val) = <<4, 1, 3, 2>>
  /\ ret[1] = [count |-> 4, p25 |-> Num(7), median |-> Num(10), p75 |-> Num(13)]

\* the calculator on no listings
C15_WitnessEmpty ==
  /\ Returned("calculateSalesMetrics")
  /\ arg.val = <<>>
  /\ ret[1].p25 = Undefined

\* the text contains the word, in any letter case
Mentions(text, word) == includes(toLowerCase(text), word)

\* C16: for a shipping text the normalizer returns the unknown-shipping
\* marker exactly when the text mentions bids and does not mention free, and
\* that marker is not "0"; a text that mentions free gives "0"; a text with
\* a delivery cost gives the parsed cost, or "0" when it does not parse; a
\* pre-extracted number is returned as its text.
C16_Shipping ==
  (Returned("getShippingCost") /\ ~ret[1].threw) =>
    LET sh  == arg.val[1]
        out == ret[1].value
    IN  IF sh.isString
        THEN /\ out = UNKNOWN <=> (Mentions(sh.text, BIDS) /\ ~Mentions(sh.text, FREE))
             /\ out = UNKNOWN => out # <<"0">>
             /\ Mentions(sh.text, FREE) => out = <<"0">>
             /\ sh.text = Delivery3 => out = <<"3">>
             /\ sh.text = <<"+", "$", "1", "2", " ">> \o DELIVERY => out = <<"1", "2">>
             /\ sh.text = <<"N", "/", "A", " ">> \o DELIVERY => out = <<"0">>
             /\ (includes(sh.text, DELIVERY) /\ out # UNKNOWN /\ ~Mentions(sh.text, FREE)) =>
                  LET cost == parsePrice(replace(replace(sh.text, <<" ">> \o DELIVERY, <<>>),
                                                 <<"+">>, <<>>))
                  IN  out = IF cost.isNull THEN <<"0">> ELSE toString(cost.value)
        ELSE /\ out = toString(sh.extracted[1])
             /\ sh.extracted = Num(0) => out = <<"0">>
             /\ sh.extracted = Num(4) => out = <<"4">>
             /\ sh.extracted = Num(12) => out = <<"1", "2">>

\* a text with a delivery cost and bids: the cost is unknown
C16_Witness ==
  /\ Returned("getShippingCost")
  /\ arg.val = ShippingText(Delivery3 \o <<" ", "2", " ">> \o BIDS)
  /\ ret[1].value = UNKNOWN

\* free wins over bids
C16_WitnessFree ==
  /\ Returned("getShippingCost")
  /\ arg.val = ShippingText(FREE \o <<" ", "3", " ">> \o BIDS)
  /\ ret[1].value = <<"0">>

\* the cards of the page that are neither the sponsored placeholder nor
\* without a condition, in page order
RECURSIVE Emitted(_)
Emitted(html) ==
  IF html = <<>> THEN <<>>
  ELSE IF Head(html).title = SPONSORED \/ Head(html).condition = ""
       THEN Emitted(Tail(html))
       ELSE <<Head(html)>> \o Emitted(Tail(html))

\* C17: the extractor emits no card with the sponsored placeholder title and
\* no card with an empty condition, and emits every other card, with or
\* without a shipping block, in the order of the page.
C17_Extractor ==
  Returned("extractSellItemsFromHTML") =>
    LET html == arg.val
        out  == ret[1]
        kept == Emitted(html)
    IN  /\ \A k \in 1..Len(out) : out[k].title # SPONSORED
        /\ Len(out) = Len(kept)
        /\ \A k \in 1..Len(out) : out[k].title = kept[k].title
        /\ \A j \in 1..Len(html) :
             html[j].condition = "" =>
               ~\E k \in 1..Len(out) : out[k].title = html[j].title
        /\ \A j \in 1..Len(html) :
             (html[j].title # SPONSORED /\ html[j].condition # ""
                /\ html[j].attributes = 0) =>
               \E k \in 1..Len(out) : out[k].title = html[j].title

\* a card without a shipping block is emitted before a card with one, as on
\* the page, and the sponsored card between them is dropped
C17_Witness ==
  /\ Returned("extractSellItemsFromHTML")
  /\ Len(arg.val) = 3
  /\ arg.val[1].title = "B" /\ arg.val[1].attributes = 0
  /\ arg.val[2].title = SPONSORED
  /\ arg.val[3].title = "A"
  /\ Len(ret[1]) = 2
  /\ ret[1][1].title = "B"
  /\ ret[1][2].title = "A"

\* C18: an invocation that has started ends with one response, 400, 200 or
\* 500, provided its upstream calls settle; an error never leaves the
\* handler without a response; and a waiting invocation waits for its own
\* upstream call only, whatever the other invocation and the cache are.
C18_Terminates ==
  /\ \A i \in Inv : (pc[i] \in {"primary", "serp"}) ~> (pc[i] = "done")
  /\ [](\A i \in Inv :
          /\ pc[i] = "done" => resp[i].statusCode \in {400, 200, 500}
          /\ pc[i] # "done" => resp[i] = NoResponse
          /\ (pc[i] = "primary" /\ Delivered) =>
               ENABLED (\E reply \in PrimaryReplies : PrimaryDone(i, reply))
          /\ (pc[i] = "serp" /\ Delivered) =>
               ENABLED (\E reply \in SerpReplies : SerpDone(i, reply)))

\* an invocation ended with 500 after both its upstream calls, while the
\* other one was still waiting
C18_Witness ==
  \E i, j \in Inv :
    /\ pc[i] = "done"
    /\ resp[i].statusCode = 500
    /\ calls[i] = [primary |-> 1, serp |-> 1]
    /\ pc[j] = "primary"

\* C19: in every state the slot is either empty or holds one write as a
\* whole: its key is the query of its payload, the payload has cached =
\* true and stats.count = the number of its items, and key, payload and
\* timestamp change together, set by one invocation from its own query, its
\* own items and the current time; so a response from the cache carries the
\* query that was asked for.
C19_SlotConsistent ==
  /\ [](\/ cache = EmptyCache
        \/ /\ cache.data # Null
           /\ cache.query = cache.data.query
           /\ cache.data.cached = TRUE
           /\ cache.data.stats.count = Len(cache.data.items)
           /\ cache.data.stats = calculateSalesMetrics(cache.data.items)
           /\ cache.timestamp >= 1
           /\ cache.timestamp <= now)
  /\ [](\A i \in Inv :
          AnsweredFromCache(i) =>
            /\ resp[i].body.json.query = event[i].q
            /\ resp[i].body.json.stats.count = Len(resp[i].body.json.items))
  /\ [][cache' # cache =>
          \E i \in Inv :
            /\ pc[i] \in {"primary", "serp"}
            /\ AnsweredFresh(i)'
            /\ cache'.query = event[i].q
            /\ cache'.data.query = event[i].q
            /\ cache'.data.items = items'[i]
            /\ cache'.timestamp = now]_vars

\* an invocation resumes after its primary call and finds the slot written
\* by the other invocation for another query; the slot is whole
C19_Witness ==
  \E i, j \in Inv :
    /\ i # j
    /\ pc[j] = "serp"
    /\ pc[i] = "idle"
    /\ cache.data # Null
    /\ cache.query # event[j].q
    /\ cache.query = cache.data.query
    /\ cache.timestamp = now

\* every result list with a result that lacks the price or the shipping
\* field makes the mapping throw, whatever the other results are
MalformedAlwaysThrows ==
  \A res \in SeqsUpTo(UnitResults, MaxResults) :
    (\E k \in 1..Len(res) : Malformed(res[k])) => serpResults(res, 1).threw

\* C20: when the fallback provider answers successfully with a result that
\* lacks the price or the shipping field, the mapping throws: the request
\* ends with 500, no listing of that answer is returned and the cache is
\* unchanged, even when every other result is valid.
C20_MalformedResult ==
  /\ [](MalformedAlwaysThrows)
  /\ [](\A i \in Inv :
          (pc[i] = "done" /\ upstream[i].serp = "malformed") =>
            /\ resp[i].statusCode = 500
            /\ resp[i].body.kind = "error"
            /\ serpItems[i] = Undefined)
  /\ [][\A i \in Inv :
          (pc[i] = "serp" /\ upstream'[i].serp = "malformed") =>
            cache' = cache]_vars

\* a valid result followed by one without a price field: 500, and the two
\* primary listings are not returned either
C20_Witness ==
  \E i \in Inv :
    /\ pc[i] = "done"
    /\ upstream[i].serp = "malformed"
    /\ calls[i] = [primary |-> 1, serp |-> 1]
    /\ Len(items[i]) = 2
    /\ serpItems[i] = Undefined
    /\ resp[i].statusCode = 500

====
